---- MODULE Spec2Model ----
(***************************************************************************)
(* A model of tsgm/models/cgan.py: the two adversarial trainers GAN and     *)
(* ConditionalGAN, their compile / train_step / generate / clone methods   *)
(* and the tensor helpers train_step is built from.                        *)
(*                                                                         *)
(* A tensor whose content matters (labels, rep_labels) is a record         *)
(* [ok, shape, flat] with flat the row-major list of its entries; a tensor *)
(* whose content is random or produced by the injected networks is a       *)
(* record [ok, shape].  ok = FALSE stands for the exception the tensor     *)
(* layer raises on incompatible shapes.                                    *)
(***************************************************************************)
EXTENDS Integers, Sequences, FiniteSets, TLC

\* ------------------------------------------------------------------ bounds
MaxBatch == 2
MaxSeqLen == 2
MaxLabelDim == 2
MaxSteps == 2

\* value domains of the inputs the model draws
LatentDims == {3}
FeatDims == {1}
\* the (g_loss, d_loss) pairs a step's loss function can produce
LossPairs == {<<1, 3>>, <<2, 0>>}
\* values tf.random.normal(mean 0, stddev 1) can produce (its support is all reals)
NormalDraws == {-1, 0}

VARIABLES
    \* the trainer's fields, fixed at construction
    cls, use_wgan, temporal, latent_dim, seq_len, feat_dim,
    tf_privacy_available,
    \* bound by compile
    d_optimizer, g_optimizer, dp,
    \* keras.metrics.Mean trackers
    gen_loss_tracker, disc_loss_tracker,
    \* the most recent call: its name, outcome, locals, log output and return value
    last_call, outcome, warning_logged, calls, ret,
    batch_size, labels, rep_labels, random_vector_labels,
    combined_data, desc_labels, misleading_labels, alpha,
    generated, clone_ret,
    \* history: the losses of the completed calls of train_step
    g_hist, d_hist

vars == << cls, use_wgan, temporal, latent_dim, seq_len, feat_dim,
           tf_privacy_available, d_optimizer, g_optimizer, dp,
           gen_loss_tracker, disc_loss_tracker,
           last_call, outcome, warning_logged, calls, ret,
           batch_size, labels, rep_labels, random_vector_labels,
           combined_data, desc_labels, misleading_labels, alpha,
           generated, clone_ret, g_hist, d_hist >>

fields == << cls, use_wgan, temporal, latent_dim, seq_len, feat_dim,
             tf_privacy_available >>
compileVars == << d_optimizer, g_optimizer, dp >>
trackerVars == << gen_loss_tracker, disc_loss_tracker, g_hist, d_hist >>

\* ----------------------------------------------------------- small helpers
Has(seq, x) == \E i \in DOMAIN seq : seq[i] = x

\* position of x in a sequence without repetitions, Len(seq) + 1 when absent
IndexOf(seq, x) == IF Has(seq, x) THEN CHOOSE i \in DOMAIN seq : seq[i] = x
                   ELSE Len(seq) + 1

RECURSIVE SumSeq(_)
SumSeq(s) == IF s = <<>> THEN 0 ELSE Head(s) + SumSeq(Tail(s))

RECURSIVE Size(_)
Size(shape) == IF shape = <<>> THEN 1 ELSE Head(shape) * Size(Tail(shape))

Fill(n, v) == [k \in 1..n |-> v]

\* ------------------------------------------------------------ tensor layer
NoTensor == [ok |-> FALSE, shape |-> <<>>, flat |-> <<>>]
NoShape == [ok |-> FALSE, shape |-> <<>>]

Tensor(shape) == [ok |-> TRUE, shape |-> shape,
                  flat |-> [k \in 1..Size(shape) |-> k - 1]]

ShapeOf(t) == [ok |-> t.ok, shape |-> t.shape]

\* x[:, :, None]
ExpandDims3(t) ==
    IF t.ok /\ Len(t.shape) >= 2
    THEN [ok |-> TRUE,
          shape |-> <<t.shape[1], t.shape[2], 1>> \o SubSeq(t.shape, 3, Len(t.shape)),
          flat |-> t.flat]
    ELSE NoTensor

\* tf.repeat(x, repeats=[r]) with no axis: x is flattened, each entry repeated r times
tf_repeat(t, r) ==
    IF t.ok
    THEN [ok |-> TRUE,
          shape |-> <<Len(t.flat) * r>>,
          flat |-> [k \in 1..(Len(t.flat) * r) |-> t.flat[((k - 1) \div r) + 1]]]
    ELSE NoTensor

\* tf.reshape(x, (-1, d2, d3))
tf_reshape3(t, d2, d3) ==
    IF t.ok /\ d2 * d3 > 0 /\ Len(t.flat) % (d2 * d3) = 0
    THEN [ok |-> TRUE, shape |-> <<Len(t.flat) \div (d2 * d3), d2, d3>>, flat |-> t.flat]
    ELSE NoTensor

\* shape of tf.concat([a, b], axis): equal ranks, equal sizes off the axis
tf_concat(a, b, axis) ==
    IF /\ a.ok /\ b.ok
       /\ Len(a.shape) = Len(b.shape)
       /\ axis \in 1..Len(a.shape)
       /\ \A i \in 1..Len(a.shape) : i # axis => a.shape[i] = b.shape[i]
    THEN [ok |-> TRUE,
          shape |-> [i \in 1..Len(a.shape) |->
                       IF i = axis THEN a.shape[i] + b.shape[i] ELSE a.shape[i]]]
    ELSE NoShape

At2(t, b, l) == t.flat[(b - 1) * t.shape[2] + l]
At3(t, b, s, l) == t.flat[((b - 1) * t.shape[2] + (s - 1)) * t.shape[3] + l]

\* ---------------------------------------------------------------- optimizers
PlainOptimizers == {"Adam"}
DPOptimizers == {"DPKerasAdagradOptimizer", "DPKerasAdamOptimizer", "DPKerasSGDOptimizer"}
Unbound == "unbound"

\* the optimizer objects a caller can construct: DP ones need tensorflow_privacy.
\* _is_dp_optimizer is the only code that tells the three DP classes apart from
\* the rest and it treats them alike, so callers pass one of them
Optimizers(available) ==
    PlainOptimizers \cup (IF available THEN {"DPKerasSGDOptimizer"} ELSE {})

_is_dp_optimizer(available, optimizer) ==
    available /\ (\/ optimizer = "DPKerasAdagradOptimizer"
                  \/ optimizer = "DPKerasAdamOptimizer"
                  \/ optimizer = "DPKerasSGDOptimizer")

\* -------------------------------------------------------------- loss trackers
NewMean == [total |-> 0, count |-> 0]

update_state_Reset(tracker, value) == [total |-> value, count |-> 1]

update_state(tracker, value) ==
    [total |-> tracker.total + value, count |-> tracker.count + 1]

\* Mean.result(): total / count (0 when nothing was absorbed), as a fraction
result(tracker) ==
    IF tracker.count = 0 THEN [num |-> 0, den |-> 1]
    ELSE [num |-> tracker.total, den |-> tracker.count]

NoReturn == [k \in {} |-> 0]

\* ------------------------------------------------------------- construction
\* keras.Model objects are references; the trainer under study has id 0
NewGAN(id, discriminator, generator, latentDim, useWgan) ==
    [kind |-> "GAN", id |-> id, discriminator |-> discriminator,
     generator |-> generator, latent_dim |-> latentDim, use_wgan |-> useWgan]

NoneValue == [kind |-> "None", id |-> -1, discriminator |-> "", generator |-> "",
              latent_dim |-> 0, use_wgan |-> FALSE]

NotCalled == [NoneValue EXCEPT !.kind = "NotCalled"]

\* keras.Model.set_weights(weights) assigns the values to the model's networks
\* (here the very networks the values were read from) and returns None
set_weights(model, weights) == NoneValue

\* get_weights(): the parameter values of the networks the trainer refers to
get_weights == "weights"

Init ==
    /\ cls \in {"GAN", "ConditionalGAN"}
    /\ use_wgan \in (IF cls = "GAN" THEN BOOLEAN ELSE {FALSE})
    /\ temporal \in (IF cls = "ConditionalGAN" THEN BOOLEAN ELSE {FALSE})
    /\ latent_dim \in LatentDims
    /\ seq_len \in 1..MaxSeqLen
    /\ feat_dim \in FeatDims
    /\ tf_privacy_available \in BOOLEAN
    /\ d_optimizer = Unbound
    /\ g_optimizer = Unbound
    /\ dp = FALSE
    /\ gen_loss_tracker = NewMean
    /\ disc_loss_tracker = NewMean
    /\ last_call = "__init__"
    /\ outcome = "ok"
    /\ warning_logged = FALSE
    /\ calls = <<>>
    /\ ret = NoReturn
    /\ batch_size = 0
    /\ labels = NoTensor
    /\ rep_labels = NoTensor
    /\ random_vector_labels = NoShape
    /\ combined_data = <<>>
    /\ desc_labels = <<>>
    /\ misleading_labels = <<>>
    /\ alpha = <<>>
    /\ generated = NoShape
    /\ clone_ret = NotCalled
    /\ g_hist = <<>>
    /\ d_hist = <<>>

\* the locals and the return value of train_step, gone once another method runs
NoStepLocals ==
    /\ calls' = <<>>
    /\ ret' = NoReturn
    /\ batch_size' = 0
    /\ rep_labels' = NoTensor
    /\ combined_data' = <<>>
    /\ desc_labels' = <<>>
    /\ misleading_labels' = <<>>
    /\ alpha' = <<>>

\* ------------------------------------------------------------------ compile
compile_dp_Either(available, dOpt, gOpt) ==
    _is_dp_optimizer(available, dOpt) \/ _is_dp_optimizer(available, gOpt)

compile_dp(available, dOpt, gOpt) ==
    LET generator_dp == _is_dp_optimizer(available, dOpt)
        discriminator_dp == _is_dp_optimizer(available, gOpt)
    IN  generator_dp /\ discriminator_dp

compile_warns(available, dOpt, gOpt) ==
    LET generator_dp == _is_dp_optimizer(available, dOpt)
        discriminator_dp == _is_dp_optimizer(available, gOpt)
    IN  generator_dp # discriminator_dp

Compile(dOpt, gOpt) ==
    /\ last_call' = "compile"
    /\ outcome' = "ok"
    /\ d_optimizer' = dOpt
    /\ g_optimizer' = gOpt
    /\ warning_logged' = compile_warns(tf_privacy_available, dOpt, gOpt)
    /\ dp' = compile_dp(tf_privacy_available, dOpt, gOpt)
    /\ NoStepLocals
    /\ labels' = NoTensor
    /\ random_vector_labels' = NoShape
    /\ generated' = NoShape
    /\ clone_ret' = NotCalled
    /\ UNCHANGED << fields, trackerVars >>

\* ------------------------------------------------- conditioning the generator
GAN_get_random_vector_labels(batchSize) ==
    [ok |-> TRUE, shape |-> <<batchSize, latent_dim>>]

CGAN_get_random_vector_labels(batchSize, lbls) ==
    IF temporal
    THEN tf_concat([ok |-> TRUE, shape |-> <<batchSize, seq_len, latent_dim>>],
                   ShapeOf(ExpandDims3(lbls)), 3)
    ELSE tf_concat([ok |-> TRUE, shape |-> <<batchSize, latent_dim>>],
                   ShapeOf(lbls), 2)

_get_output_shape(lbls) ==
    IF temporal
    THEN IF Len(lbls.shape) = 2 THEN 1 ELSE lbls.shape[3]
    ELSE lbls.shape[2]

\* generator(x): a batch of x.shape[0] sequences of the declared output shape
generator_call(input) ==
    IF input.ok THEN [ok |-> TRUE, shape |-> <<input.shape[1], seq_len, feat_dim>>]
    ELSE NoShape

\* the label tensors a caller feeds for a batch of b samples
LabelInputs(b) ==
    IF temporal
    THEN {Tensor(<<b, seq_len>>)} \cup {Tensor(<<b, seq_len, l>>) : l \in 1..MaxLabelDim}
    ELSE {Tensor(<<b, l>>) : l \in 1..MaxLabelDim}

\* ---------------------------------------------------------------- train_step
\* the statements of GAN.train_step in program order
GAN_train_step_TrackersFirst ==
    << "fake_data", "combined_data", "desc_labels", "d_loss",
       "d_gradient", "d_apply_gradients",
       "gen_tracker_update", "disc_tracker_update",
       "random_vector_2", "misleading_labels", "g_loss",
       "g_gradient", "g_apply_gradients", "return" >>

GAN_train_step ==
    << "fake_data", "combined_data", "desc_labels", "d_loss",
       "d_gradient", "d_apply_gradients",
       "random_vector_2", "misleading_labels", "g_loss",
       "g_gradient", "g_apply_gradients",
       "gen_tracker_update", "disc_tracker_update", "return" >>

\* the statements of ConditionalGAN.train_step in program order
CGAN_train_step_NoDPBranch(dpFlag) ==
    << "output_dim", "rep_labels", "random_vector_labels", "generated_ts",
       "combined_data", "desc_labels", "d_loss",
       "d_gradient", "d_apply_gradients",
       "random_vector_2", "misleading_labels", "g_loss",
       "g_gradient", "g_apply_gradients",
       "gen_tracker_update", "disc_tracker_update", "return" >>

CGAN_train_step(dpFlag) ==
    << "output_dim", "rep_labels", "random_vector_labels", "generated_ts",
       "combined_data", "desc_labels", "d_loss" >>
    \o (IF dpFlag THEN << "d_minimize" >> ELSE << "d_gradient", "d_apply_gradients" >>)
    \o << "random_vector_2", "misleading_labels", "g_loss" >>
    \o (IF dpFlag THEN << "g_minimize" >> ELSE << "g_gradient", "g_apply_gradients" >>)
    \o << "gen_tracker_update", "disc_tracker_update", "return" >>

\* statements that call into the networks, the loss function or an optimizer: a
\* failure of the tensor-execution layer surfaces at one of them (tape.gradient
\* raising leaves what apply_gradients raising leaves, so it is not listed apart)
CanFail == { "fake_data", "generated_ts", "d_loss", "d_apply_gradients",
             "d_minimize", "g_loss", "g_apply_gradients", "g_minimize" }

UpdateStatements == { "d_apply_gradients", "d_minimize", "g_apply_gradients", "g_minimize" }

\* the optimizer call a statement makes
OptimizerCall(stmt) ==
    CASE stmt = "d_apply_gradients" ->
           [optimizer |-> "d_optimizer", method |-> "apply_gradients", params |-> "discriminator"]
      [] stmt = "d_minimize" ->
           [optimizer |-> "d_optimizer", method |-> "minimize", params |-> "discriminator"]
      [] stmt = "g_apply_gradients" ->
           [optimizer |-> "g_optimizer", method |-> "apply_gradients", params |-> "generator"]
      [] stmt = "g_minimize" ->
           [optimizer |-> "g_optimizer", method |-> "minimize", params |-> "generator"]

CallsOf(stmts) ==
    LET sel == SelectSeq(stmts, LAMBDA s : s \in UpdateStatements)
    IN  [i \in 1..Len(sel) |-> OptimizerCall(sel[i])]

\* rows of combined_data = tf.concat([fake_data, real_data], axis=0)
combined_rows(b) == Fill(b, "fake") \o Fill(b, "real")

\* desc_labels = tf.concat([tf.ones((b, 1)), tf.zeros((b, 1))], axis=0)
desc_labels_of(b) == Fill(b, 1) \o Fill(b, 0)

misleading_labels_Ones(b) == Fill(b, 1)

\* misleading_labels = tf.zeros((b, 1))
misleading_labels_of(b) == Fill(b, 0)

\* rep_labels of ConditionalGAN.train_step
rep_labels_of(lbls) ==
    LET output_dim == _get_output_shape(lbls)
        rep == IF ~temporal THEN tf_repeat(ExpandDims3(lbls), seq_len) ELSE lbls
    IN  tf_reshape3(rep, seq_len, output_dim)

\* fake_data = tf.concat([generated_ts, rep_labels], -1), and real_data alike
cgan_fake_data(generated_ts, rep) == tf_concat(generated_ts, ShapeOf(rep), 3)

\* the tensors train_step builds before it reaches the discriminator
StepTensors(c, b, lbls) ==
    IF c = "GAN"
    THEN [rep |-> NoTensor, rvl |-> GAN_get_random_vector_labels(b), fake |-> NoShape]
    ELSE LET rep == rep_labels_of(lbls)
             rvl == CGAN_get_random_vector_labels(b, lbls)
         IN  [rep |-> rep, rvl |-> rvl,
              fake |-> cgan_fake_data(generator_call(rvl), rep)]

\* the statement at which the tensor layer rejects the shapes, if any
ShapeFailure(c, t) ==
    IF c = "GAN" THEN "none"
    ELSE IF ~t.rep.ok THEN "rep_labels"
    ELSE IF ~t.rvl.ok THEN "random_vector_labels"
    ELSE IF ~t.fake.ok THEN "combined_data"
    ELSE "none"

Statements(c, dpFlag) == IF c = "GAN" THEN GAN_train_step ELSE CGAN_train_step(dpFlag)

\* the statements that run to completion when the step fails at `fail`
\* (or nowhere) and the shapes are rejected at `shapeFail` (or nowhere)
Executed(stmts, fail, shapeFail) ==
    LET i == IndexOf(stmts, fail)
        j == IndexOf(stmts, shapeFail)
    IN  SubSeq(stmts, 1, (IF i < j THEN i ELSE j) - 1)

\* alpha = tf.random.normal([batch_size, 1, 1], 0.0, 1.0) of gradient_penalty
gradient_penalty_alphas(b) == [1..b -> NormalDraws]

\* what one run of train_step leaves behind, given the statements it completed
StepEffect(b, lbls, t, ex, g_loss, d_loss, alphas) ==
    LET cs == CallsOf(ex)
        gen == IF Has(ex, "gen_tracker_update")
               THEN update_state(gen_loss_tracker, g_loss) ELSE gen_loss_tracker
        disc == IF Has(ex, "disc_tracker_update")
                THEN update_state(disc_loss_tracker, d_loss) ELSE disc_loss_tracker
        ok == Has(ex, "return")
    IN
    /\ last_call' = "train_step"
    /\ outcome' = IF ok THEN "ok" ELSE "raised"
    /\ warning_logged' = FALSE
    /\ calls' = cs
    /\ gen_loss_tracker' = gen
    /\ disc_loss_tracker' = disc
    /\ ret' = IF ok THEN [g_loss |-> result(gen), d_loss |-> result(disc)] ELSE NoReturn
    /\ g_hist' = IF ok THEN Append(g_hist, g_loss) ELSE g_hist
    /\ d_hist' = IF ok THEN Append(d_hist, d_loss) ELSE d_hist
    /\ batch_size' = b
    /\ labels' = lbls
    /\ rep_labels' = IF Has(ex, "rep_labels") THEN t.rep ELSE NoTensor
    /\ random_vector_labels' =
         IF cls = "GAN" \/ Has(ex, "rep_labels") THEN t.rvl ELSE NoShape
    /\ combined_data' = IF Has(ex, "combined_data") THEN combined_rows(b) ELSE <<>>
    /\ desc_labels' = IF Has(ex, "desc_labels") THEN desc_labels_of(b) ELSE <<>>
    /\ misleading_labels' =
         IF Has(ex, "misleading_labels") THEN misleading_labels_of(b) ELSE <<>>
    /\ alpha' = alphas
    /\ generated' = NoShape
    /\ clone_ret' = NotCalled
    /\ UNCHANGED << fields, compileVars >>

\* train_step on a batch of b samples (with labels lbls for ConditionalGAN).
\* `fail` is the statement at which a collaborator raises ("none" when none
\* does); it is drawn among the statements the step reaches
TrainStep(b, lbls) ==
    LET stmts == Statements(cls, dp)
        t == StepTensors(cls, b, lbls)
        shapeFail == ShapeFailure(cls, t)
        reach == IndexOf(stmts, shapeFail)
    IN
    /\ d_optimizer # Unbound
    /\ Len(g_hist) < MaxSteps
    /\ \E fail \in {"none"} \cup {s \in CanFail : IndexOf(stmts, s) < reach} :
         LET ex == Executed(stmts, fail, shapeFail)
         IN  \E losses \in (IF Has(ex, "g_loss") THEN LossPairs ELSE {<<0, 0>>}),
                alphas \in (IF cls = "GAN" /\ use_wgan /\ Has(ex, "d_loss")
                            THEN gradient_penalty_alphas(b) ELSE {<<>>}) :
                 StepEffect(b, lbls, t, ex, losses[1], losses[2], alphas)

\* ------------------------------------------------------------------ generate
\* generate(num) of GAN, generate(labels) of ConditionalGAN
Generate(num, lbls) ==
    LET rvl == IF cls = "GAN" THEN GAN_get_random_vector_labels(num)
               ELSE CGAN_get_random_vector_labels(lbls.shape[1], lbls)
    IN
    /\ last_call' = "generate"
    /\ outcome' = IF rvl.ok THEN "ok" ELSE "raised"
    /\ warning_logged' = FALSE
    /\ labels' = lbls
    /\ random_vector_labels' = rvl
    /\ generated' = generator_call(rvl)
    /\ NoStepLocals
    /\ clone_ret' = NotCalled
    /\ UNCHANGED << fields, compileVars, trackerVars >>

\* --------------------------------------------------------------------- clone
clone ==
    LET copy_model == NewGAN(1, "discriminator", "generator", latent_dim, FALSE)
    IN  set_weights(copy_model, get_weights)

Clone ==
    /\ cls = "GAN"
    /\ last_call' = "clone"
    /\ outcome' = "ok"
    /\ warning_logged' = FALSE
    /\ clone_ret' = clone
    /\ NoStepLocals
    /\ labels' = NoTensor
    /\ random_vector_labels' = NoShape
    /\ generated' = NoShape
    /\ UNCHANGED << fields, compileVars, trackerVars >>

\* ------------------------------------------------------------- specification
DoCompile ==
    \E dOpt \in Optimizers(tf_privacy_available), gOpt \in Optimizers(tf_privacy_available) :
        Compile(dOpt, gOpt)

DoTrainStep ==
    \E b \in 1..MaxBatch :
      \E lbls \in (IF cls = "GAN" THEN {NoTensor} ELSE LabelInputs(b)) :
        TrainStep(b, lbls)

DoGenerate ==
    \E b \in 1..MaxBatch :
      \E lbls \in (IF cls = "GAN" THEN {NoTensor} ELSE LabelInputs(b)) :
        Generate(b, lbls)

Next == DoCompile \/ DoTrainStep \/ DoGenerate \/ Clone

Spec == Init /\ [][Next]_vars

\* ------------------------------------------------------------------- claims
IsDPVariant(optimizer) == optimizer \in DPOptimizers

NonWgan == cls = "ConditionalGAN" \/ ~use_wgan

\* C1: after compile, dp is true iff both bound optimizers are DP variants (and
\* stays so until the next compile rebinds them); compile logs a warning iff
\* exactly one of the two is a DP variant, and then completes with dp false.
C1_DpIffBothDP ==
    /\ d_optimizer # Unbound =>
         (dp <=> (IsDPVariant(d_optimizer) /\ IsDPVariant(g_optimizer)))
    /\ last_call = "compile" =>
         /\ outcome = "ok"
         /\ warning_logged <=> (IsDPVariant(d_optimizer) # IsDPVariant(g_optimizer))
         /\ warning_logged => ~dp

\* a re-compile (a step was already trained) with one DP and one plain optimizer
C1_Witness ==
    /\ last_call = "compile"
    /\ Len(g_hist) > 0
    /\ IsDPVariant(d_optimizer) /\ ~IsDPVariant(g_optimizer)
    /\ warning_logged /\ ~dp

\* C2: in the non-WGAN discriminator loss, the label paired with row i of the
\* 2B-row discriminator batch is 1 if row i is real and 0 if it is generated.
C2_DescLabelsMarkReal ==
    (last_call = "train_step" /\ NonWgan /\ desc_labels # <<>>) =>
        /\ Len(desc_labels) = 2 * batch_size
        /\ Len(combined_data) = 2 * batch_size
        /\ \A i \in DOMAIN combined_data :
             desc_labels[i] = (IF combined_data[i] = "real" THEN 1 ELSE 0)

\* C3: in ConditionalGAN.train_step with temporal false, rep_labels has shape
\* (B, T, L) and rep_labels[b, t, l] = labels[b, l] for every b, t and l.
C3_RepLabelsBroadcast ==
    (cls = "ConditionalGAN" /\ ~temporal /\ last_call = "train_step" /\ rep_labels.ok) =>
        /\ rep_labels.shape = <<batch_size, seq_len, labels.shape[2]>>
        /\ \A b \in 1..batch_size, t \in 1..seq_len, l \in 1..labels.shape[2] :
             At3(rep_labels, b, t, l) = At2(labels, b, l)

\* C4: GAN.clone() returns a new GAN trainer, distinct from the original, with
\* the same discriminator, generator, latent_dim and use_wgan flag.
C4_CloneReturnsCopy ==
    last_call = "clone" =>
        /\ clone_ret.kind = "GAN"
        /\ clone_ret.id # 0
        /\ clone_ret.discriminator = "discriminator"
        /\ clone_ret.generator = "generator"
        /\ clone_ret.latent_dim = latent_dim
        /\ clone_ret.use_wgan = use_wgan

\* C5: a train_step that fails leaves both loss trackers at their pre-step
\* values; when it fails in the generator phase (after misleading_labels was
\* built) the discriminator update is the one update that was applied.
C5_FailedStepKeepsTrackers ==
    [][ (last_call' = "train_step" /\ outcome' = "raised") =>
          /\ gen_loss_tracker' = gen_loss_tracker
          /\ disc_loss_tracker' = disc_loss_tracker
          /\ misleading_labels' # <<>> =>
               /\ Len(calls') = 1
               /\ calls'[1].params = "discriminator"
          /\ misleading_labels' = <<>> =>
               \A i \in DOMAIN calls' : calls'[i].params # "generator" ]_vars

\* a step that failed in the generator phase, after an earlier step had fed the trackers
C5_Witness ==
    /\ last_call = "train_step" /\ outcome = "raised"
    /\ misleading_labels # <<>>
    /\ Len(calls) = 1 /\ calls[1].params = "discriminator"
    /\ gen_loss_tracker.count > 0

\* C6: each tracker has absorbed exactly one value per completed train_step and
\* none from compile, generate or a failed step; the n-th completed train_step
\* returns exactly the keys g_loss and d_loss, valued with the means of the n
\* generator losses and the n discriminator losses so far.
C6_TrackersAbsorbOnePerStep ==
    /\ gen_loss_tracker.count = Len(g_hist)
    /\ disc_loss_tracker.count = Len(d_hist)
    /\ gen_loss_tracker.total = SumSeq(g_hist)
    /\ disc_loss_tracker.total = SumSeq(d_hist)
    /\ (last_call = "train_step" /\ outcome = "ok") =>
         /\ DOMAIN ret = {"g_loss", "d_loss"}
         /\ ret.g_loss.den > 0 /\ ret.d_loss.den > 0
         /\ ret.g_loss.num * Len(g_hist) = SumSeq(g_hist) * ret.g_loss.den
         /\ ret.d_loss.num * Len(d_hist) = SumSeq(d_hist) * ret.d_loss.den

\* the second completed step, with losses that differ from the first step's
C6_Witness ==
    /\ last_call = "train_step" /\ outcome = "ok"
    /\ Len(g_hist) = 2
    /\ g_hist[1] # g_hist[2]
    /\ d_hist[1] # d_hist[2]

\* C7: with temporal true and labels of shape (B, T) or (B, T, L),
\* _get_random_vector_labels succeeds and returns a tensor of shape
\* (B, T, latent_dim + _get_output_shape(labels)).
C7_TemporalVectorShape ==
    (cls = "ConditionalGAN" /\ temporal /\ labels.ok
        /\ last_call \in {"generate", "train_step"}) =>
        /\ random_vector_labels.ok
        /\ random_vector_labels.shape =
             <<labels.shape[1], labels.shape[2], latent_dim + _get_output_shape(labels)>>

\* C8: a completed ConditionalGAN.train_step updates the discriminator
\* parameters and then the generator parameters, once each: both through
\* minimize when dp is true, both through apply_gradients when dp is false (as
\* in the one-DP-one-plain case); d_optimizer only ever updates discriminator
\* parameters and g_optimizer only generator parameters.
C8_OneUpdateEachByDpBranch ==
    (cls = "ConditionalGAN" /\ last_call = "train_step") =>
        /\ \A i \in DOMAIN calls :
             calls[i].optimizer = "d_optimizer" <=> calls[i].params = "discriminator"
        /\ \A i \in DOMAIN calls :
             calls[i].optimizer = "g_optimizer" <=> calls[i].params = "generator"
        /\ outcome = "ok" =>
             LET method == IF IsDPVariant(d_optimizer) /\ IsDPVariant(g_optimizer)
                           THEN "minimize" ELSE "apply_gradients"
             IN  calls = << [optimizer |-> "d_optimizer", method |-> method,
                             params |-> "discriminator"],
                            [optimizer |-> "g_optimizer", method |-> method,
                             params |-> "generator"] >>

\* a completed step under two DP optimizers
C8_Witness ==
    /\ cls = "ConditionalGAN" /\ last_call = "train_step" /\ outcome = "ok"
    /\ IsDPVariant(d_optimizer) /\ IsDPVariant(g_optimizer)
    /\ Len(calls) = 2 /\ calls[1].method = "minimize"

\* C9: in the WGAN path there is one mixing coefficient per sample and every
\* coefficient that can be drawn lies in [0, 1).
C9_AlphaInUnitInterval ==
    (cls = "GAN" /\ use_wgan /\ last_call = "train_step" /\ alpha # <<>>) =>
        /\ Len(alpha) = batch_size
        /\ \A i \in DOMAIN alpha : 0 <= alpha[i] /\ alpha[i] < 1

\* C10: in the non-WGAN path every entry of misleading_labels equals the label
\* desc_labels gives to the real rows of the same step's discriminator batch.
C10_MisleadingMatchesRealLabel ==
    (last_call = "train_step" /\ NonWgan /\ misleading_labels # <<>>) =>
        /\ Len(misleading_labels) = batch_size
        /\ \E i \in DOMAIN combined_data : combined_data[i] = "real"
        /\ \A j \in DOMAIN misleading_labels : \A i \in DOMAIN combined_data :
             combined_data[i] = "real" => misleading_labels[j] = desc_labels[i]

\* a completed non-WGAN step on a batch of two samples
C10_Witness ==
    /\ last_call = "train_step" /\ outcome = "ok" /\ NonWgan
    /\ batch_size = 2
    /\ Len(misleading_labels) = 2

====
